---------------------------- MODULE Spec2Model ----------------------------
(***************************************************************************)
(* Georgia Fantasy 5 predictor (src/ps_index.py): the combination filter,  *)
(* the statistics and score calculators, the frequency ranker and the      *)
(* two-phase prediction generator.                                         *)
(*                                                                         *)
(* Python lists are sequences; a dict is the sequence of its <<key,value>> *)
(* pairs in insertion order (the code sorts dict items, so the order is    *)
(* observable).  Floats are kept exact by scaling: a score is held as      *)
(* 1200 * score, statistics as numerators over n or n*n.                   *)
(***************************************************************************)
EXTENDS Integers, Sequences, FiniteSets, TLC

VARIABLES
    history,               \* self.historical_draws: draws, most recent first
    recent,                \* how many leading draws the 30-day query returns
    count,                 \* generate_predictions(count)
    max_seq2,              \* predictor.max_seq2, assigned by the settings GUI
    max_seq3,              \* predictor.max_seq3
    max_mod_tot,           \* predictor.max_mod_tot
    sum_range,             \* predictor.sum_range
    pc,                    \* position inside generate_predictions
    frequency,             \* dict number -> count (get_rank_frequency)
    ranks,                 \* dict number -> rank (rank_numbers)
    ranks_again,           \* the dict of a second rank_numbers call
    most_frequent_nums,    \* the 15 best-ranked numbers
    comb_idx,              \* itertools.combinations position (Phase A)
    filtered_combinations, \* survivors, in the order collected
    weighted_nums,         \* Phase B pool: number -> copies in the list
    checked_combos,        \* Phase B set of tuples already collected
    attempts,              \* Phase B attempt counter
    result,                \* the returned list
    op,                    \* the method a direct caller invoked
    combination,           \* its argument
    outcome,               \* "True", "False", "returned" or the exception
    rule,                  \* the filter rule that returned False
    stats,                 \* calculate_stats' record
    score,                 \* _calculate_score's value (scaled)
    csv_file,              \* the file at file_path (src/temp1.py loaders)
    earlier_results        \* what earlier generate_predictions calls returned

vars == <<history, recent, count, max_seq2, max_seq3, max_mod_tot, sum_range,
          pc, frequency, ranks, ranks_again, most_frequent_nums, comb_idx,
          filtered_combinations, weighted_nums, checked_combos, attempts,
          result, op, combination, outcome, rule, stats, score,
          csv_file, earlier_results>>

cfgVars == <<max_seq2, max_seq3, max_mod_tot, sum_range>>
genVars == <<pc, most_frequent_nums, comb_idx, filtered_combinations,
             weighted_nums, checked_combos, attempts, result>>
rankVars == <<frequency, ranks, ranks_again>>
callVars == <<op, combination, outcome, rule, stats, score>>

-----------------------------------------------------------------------------
(* Python built-ins *)

Range(s) == {s[i] : i \in DOMAIN s}

RECURSIVE SumSeq(_)
SumSeq(s) == IF s = <<>> THEN 0 ELSE Head(s) + SumSeq(Tail(s))

Abs(x) == IF x < 0 THEN -x ELSE x

Min(a, b) == IF a < b THEN a ELSE b

Max(a, b) == IF a > b THEN a ELSE b

Take(s, n) == SubSeq(s, 1, Min(n, Len(s)))

\* sorted(numbers): ascending, stable
RECURSIVE InsertAsc(_, _)
InsertAsc(x, s) ==
    IF s = <<>> THEN <<x>>
    ELSE IF x < Head(s) THEN <<x>> \o s
    ELSE <<Head(s)>> \o InsertAsc(x, Tail(s))

RECURSIVE sorted(_)
sorted(s) == IF s = <<>> THEN <<>> ELSE InsertAsc(s[Len(s)], sorted(SubSeq(s, 1, Len(s) - 1)))

\* sorted(items, key=..., reverse=True): descending by key[x]; equal keys keep
\* their original order (Python's sort is stable, also when reversed)
RECURSIVE InsertDescBy(_, _, _)
InsertDescBy(x, s, key) ==
    IF s = <<>> THEN <<x>>
    ELSE IF key[x] > key[Head(s)] THEN <<x>> \o s
    ELSE <<Head(s)>> \o InsertDescBy(x, Tail(s), key)

RECURSIVE SortedDescBy(_, _)
SortedDescBy(s, key) ==
    IF s = <<>> THEN <<>>
    ELSE InsertDescBy(s[Len(s)], SortedDescBy(SubSeq(s, 1, Len(s) - 1), key), key)

\* sorted(items, key=...): ascending by key[x], stable
RECURSIVE InsertAscBy(_, _, _)
InsertAscBy(x, s, key) ==
    IF s = <<>> THEN <<x>>
    ELSE IF key[x] < key[Head(s)] THEN <<x>> \o s
    ELSE <<Head(s)>> \o InsertAscBy(x, Tail(s), key)

RECURSIVE SortedAscBy(_, _)
SortedAscBy(s, key) ==
    IF s = <<>> THEN <<>>
    ELSE InsertAscBy(s[Len(s)], SortedAscBy(SubSeq(s, 1, Len(s) - 1), key), key)

\* dict helpers: d is a sequence of <<key, value>> pairs
Keys(d) == {d[i][1] : i \in DOMAIN d}

Lookup(d, k) == d[CHOOSE i \in DOMAIN d : d[i][1] = k][2]

\* the dict as a function, for use as a sort key over its items
ValueOf(d) == [p \in Range(d) |-> p[2]]

-----------------------------------------------------------------------------
(* GeorgiaFantasy5Predictor: constants of __init__ *)

num_range == 1..42

nums_per_draw == 5

-----------------------------------------------------------------------------
(* count_sequential_numbers *)

count_sequential_numbers(numbers) ==
    LET sorted_nums == sorted(numbers)
        seq2 == Cardinality({i \in 1..(Len(sorted_nums) - 1) :
                    sorted_nums[i + 1] - sorted_nums[i] = 1})
        seq3 == Cardinality({i \in 1..(Len(sorted_nums) - 2) :
                    /\ sorted_nums[i + 1] - sorted_nums[i] = 1
                    /\ sorted_nums[i + 2] - sorted_nums[i + 1] = 1})
    IN  <<seq2, seq3>>

(* calculate_modular_total *)

calculate_modular_total(numbers) ==
    LET mod_counts == [r \in 0..9 |->
                          Cardinality({i \in DOMAIN numbers : numbers[i] % 10 = r})]
        mod_total == SumSeq([k \in 1..10 |-> Max(0, mod_counts[k - 1] - 1)])
        mod_x == Cardinality({r \in 0..9 : mod_counts[r] > 2})
    IN  <<mod_total, mod_x>>

(* calculate_decade_distribution: the last band is the else branch *)

calculate_decade_distribution(numbers) ==
    LET In(lo, hi) == {i \in DOMAIN numbers : lo <= numbers[i] /\ numbers[i] <= hi}
        d0 == Cardinality(In(1, 9))
        d1 == Cardinality(In(10, 19))
        d2 == Cardinality(In(20, 29))
        d3 == Cardinality(In(30, 39))
        d4 == Len(numbers) - d0 - d1 - d2 - d3
    IN  <<d0, d1, d2, d3, d4>>

(* get_last_n_draws: DataFrame.head(n) *)

get_last_n_draws(hist, n) == Take(hist, n)

(* calculate_duplicates_from_previous: <<dup_counts, cumulative_dups>> *)

calculate_duplicates_from_previous(numbers, hist, max_draws) ==
    LET last_draws == get_last_n_draws(hist, max_draws)
        dup_counts == [i \in 1..Len(last_draws) |->
                          Cardinality(Range(numbers) \cap Range(last_draws[i]))]
        all_previous_nums(i) ==
            UNION {Range(last_draws[j]) : j \in {j \in 1..i : j <= Len(last_draws)}}
        cumulative_dups == [i \in 1..max_draws |->
                               Cardinality(Range(numbers) \cap all_previous_nums(i))]
    IN  <<dup_counts, cumulative_dups>>

-----------------------------------------------------------------------------
(* filter_combination: the rules in the order the code evaluates them.    *)
(* Each XRejects is the condition of one `return False`.                  *)

LengthRejects(c) == Len(c) # nums_per_draw

\* mutant: the parity window is one wider on each side
ParityRejects_OneToFour(c) ==
    LET even_count == Cardinality({i \in DOMAIN c : c[i] % 2 = 0})
        odd_count == nums_per_draw - even_count
    IN  ~(1 <= even_count /\ even_count <= 4 /\ 1 <= odd_count /\ odd_count <= 4)

ParityRejects(c) ==
    LET even_count == Cardinality({i \in DOMAIN c : c[i] % 2 = 0})
        odd_count == nums_per_draw - even_count
    IN  ~(2 <= even_count /\ even_count <= 3 /\ 2 <= odd_count /\ odd_count <= 3)

\* mutant: the caps admit every run a draw of five can hold
SequentialRejects_WideCaps(c) ==
    LET s == count_sequential_numbers(c)
    IN  s[1] > 4 \/ s[2] > 3

SequentialRejects(c) ==
    LET s == count_sequential_numbers(c)
    IN  s[1] > 1 \/ s[2] > 0

ModularRejects(c) ==
    LET m == calculate_modular_total(c)
    IN  m[1] > 2 \/ m[2] > 0

\* mutant: the cap of a decade band off by one
DecadeRejects_CapThree(c) ==
    LET d == calculate_decade_distribution(c)
    IN  d[1] > 3 \/ d[2] > 3 \/ d[3] > 3 \/ d[4] > 3 \/ d[5] > 3

DecadeRejects(c) ==
    LET d == calculate_decade_distribution(c)
    IN  d[1] > 2 \/ d[2] > 2 \/ d[3] > 2 \/ d[4] > 2 \/ d[5] > 2

\* mutant: the cap on the most recent draw off by one
Dup1Rejects_CapTwo(dups) == dups[1][1] > 2

Dup1Rejects(dups) == dups[1][1] > 1

Dup2Rejects(dups) == dups[2][2] > 2

Dup3Rejects(dups) == dups[2][3] > 3

SumRejects(c) ==
    LET total_sum == SumSeq(c)
    IN  ~(80 <= total_sum /\ total_sum <= 120)

Returned(r, why) == [ret |-> r, rule |-> why]

\* ret is "True", "False", or the exception raised; rule names the rule that
\* returned False.  dup_counts[0] raises IndexError when no draw is loaded.
filter_combination(c, hist) ==
    LET dups == calculate_duplicates_from_previous(c, hist, 10)
    IN  IF LengthRejects(c) THEN Returned("False", "length")
        ELSE IF ParityRejects(c) THEN Returned("False", "parity")
        ELSE IF SequentialRejects(c) THEN Returned("False", "sequential")
        ELSE IF ModularRejects(c) THEN Returned("False", "modular")
        ELSE IF DecadeRejects(c) THEN Returned("False", "decade")
        ELSE IF Len(dups[1]) = 0 THEN Returned("IndexError", "none")
        ELSE IF Dup1Rejects(dups) THEN Returned("False", "overlap1")
        ELSE IF Dup2Rejects(dups) THEN Returned("False", "overlap2")
        ELSE IF Dup3Rejects(dups) THEN Returned("False", "overlap3")
        ELSE IF SumRejects(c) THEN Returned("False", "sum")
        ELSE Returned("True", "none")

-----------------------------------------------------------------------------
(* calculate_stats.  Exact values as integer numerators:                   *)
(*   mean = mean_n / n, median = median_2 / 2, quartX = quartX_2 / 2,      *)
(*   variance = variance_nn / n^2, avedev = avedev_nn / n^2,               *)
(*   stdev = sqrt(variance).  harmean and geomean are irrational and are   *)
(*   not carried.  Nothing in the body rejects any list of numbers.        *)

\* mutant: the quartiles are the 25th, 50th and 75th percentile of five values
calculate_stats_TextbookQuartiles(numbers) ==
    LET n == Len(numbers)
        total == SumSeq(numbers)
        sorted_nums == sorted(numbers)
        median_2 == IF n = 0 THEN 0
                    ELSE IF n % 2 = 1 THEN 2 * sorted_nums[(n + 1) \div 2]
                    ELSE sorted_nums[n \div 2] + sorted_nums[n \div 2 + 1]
        big == n >= 4
    IN  [n |-> n,
         mean_n |-> total,
         median_2 |-> median_2,
         quart1_2 |-> IF big THEN 2 * sorted_nums[2] ELSE 0,
         quart2_2 |-> IF big THEN 2 * sorted_nums[3] ELSE 0,
         quart3_2 |-> IF big THEN 2 * sorted_nums[4] ELSE 0,
         variance_nn |-> n * SumSeq([i \in 1..n |-> numbers[i] * numbers[i]]) - total * total,
         avedev_nn |-> SumSeq([i \in 1..n |-> Abs(n * numbers[i] - total)]),
         skew |-> 0,
         kurt |-> 0]

calculate_stats(numbers) ==
    LET n == Len(numbers)
        total == SumSeq(numbers)
        sorted_nums == sorted(numbers)
        median_2 == IF n = 0 THEN 0
                    ELSE IF n % 2 = 1 THEN 2 * sorted_nums[(n + 1) \div 2]
                    ELSE sorted_nums[n \div 2] + sorted_nums[n \div 2 + 1]
        big == n >= 4
    IN  [n |-> n,
         mean_n |-> total,
         median_2 |-> median_2,
         quart1_2 |-> IF big THEN sorted_nums[1] + sorted_nums[2] ELSE 0,
         quart2_2 |-> IF big THEN sorted_nums[2] + sorted_nums[3] ELSE 0,
         quart3_2 |-> IF big THEN sorted_nums[3] + sorted_nums[4] ELSE 0,
         variance_nn |-> n * SumSeq([i \in 1..n |-> numbers[i] * numbers[i]]) - total * total,
         avedev_nn |-> SumSeq([i \in 1..n |-> Abs(n * numbers[i] - total)]),
         skew |-> 0,
         kurt |-> 0]

-----------------------------------------------------------------------------
(* _calculate_score, held as 1200 * composite_score:                       *)
(*   0.35 * norm_rank_score = (300 - 10 * rank_score) * 140 / 1200         *)
(*   0.25 * sum_score       = (10000 - 333 * capped) * 3 / 1200            *)
(*   0.15 * eo_balance      = (100 - 10 * |2 * even - 5|) * 180 / 1200     *)
(*   0.25 * decade_score    = decade_score * 300 / 1200                    *)
(* ranks[num] raises KeyError for a number the rank dict does not hold.    *)

score_raises(c, rk) == \E i \in DOMAIN c : c[i] \notin Keys(rk)

\* mutant: the distance from the average sum is not capped at 30
_calculate_score_NoCap(c, rk) ==
    LET rank_score == SumSeq([i \in DOMAIN c |-> Lookup(rk, c[i])])
        norm_rank_score_3 == 300 - 10 * rank_score
        sum_score_100 == 10000 - Abs(SumSeq(c) - 100) * 333
        even_count == Cardinality({i \in DOMAIN c : c[i] % 2 = 0})
        eo_balance_score == 100 - Abs(2 * even_count - nums_per_draw) * 10
        d == calculate_decade_distribution(c)
        over == \E k \in 1..5 : d[k] > 3
        empty == \E k \in 1..5 : d[k] = 0
        decade_score == 80 - (IF over THEN 20 ELSE 0) - (IF empty THEN 20 ELSE 0)
    IN  norm_rank_score_3 * 140 + sum_score_100 * 3
            + eo_balance_score * 180 + decade_score * 300

\* lines 407-408, times 3
norm_rank_score_3(c, rk) ==
    LET rank_score == SumSeq([i \in DOMAIN c |-> Lookup(rk, c[i])])
    IN  300 - 10 * rank_score

\* lines 414-415, times 100
sum_score_100(c) ==
    LET avg_sum == 100
    IN  10000 - Min(Abs(SumSeq(c) - avg_sum), 30) * 333

\* lines 418-419
eo_balance_score(c) ==
    LET even_count == Cardinality({i \in DOMAIN c : c[i] % 2 = 0})
    IN  100 - Abs(2 * even_count - nums_per_draw) * 10

\* lines 422-427
decade_score(c) ==
    LET d == calculate_decade_distribution(c)
        over == \E k \in 1..5 : d[k] > 3
        empty == \E k \in 1..5 : d[k] = 0
    IN  80 - (IF over THEN 20 ELSE 0) - (IF empty THEN 20 ELSE 0)

_calculate_score(c, rk) ==
    norm_rank_score_3(c, rk) * 140 + sum_score_100(c) * 3
        + eo_balance_score(c) * 180 + decade_score(c) * 300

-----------------------------------------------------------------------------
(* get_rank_frequency: the draws of the last 30 days are the first `n`     *)
(* draws of the date-descending history; the dict is built for 1..42.      *)

get_rank_frequency(hist, n) ==
    LET recent_draws == Take(hist, n)
        hits(num) == SumSeq([k \in DOMAIN recent_draws |->
                        Cardinality({i \in DOMAIN recent_draws[k] : recent_draws[k][i] = num})])
    IN  [num \in 1..42 |-> <<num, hits(num)>>]

(* rank_numbers: i // group_size divides by zero when the dict has fewer   *)
(* than 7 entries                                                          *)

rank_numbers_raises(frequency_dict) ==
    Len(frequency_dict) > 0 /\ Len(frequency_dict) \div 7 = 0

\* mutant: reverse=True forgotten, the least frequent numbers come first
rank_numbers_LeastFirst(frequency_dict) ==
    LET sorted_nums == SortedAscBy(frequency_dict, ValueOf(frequency_dict))
        group_size == Len(sorted_nums) \div 7
    IN  [i \in DOMAIN sorted_nums |->
            <<sorted_nums[i][1], Min((i - 1) \div group_size, 6)>>]

\* mutant: the dict is cut into 6 groups instead of 7
rank_numbers_SixGroups(frequency_dict) ==
    LET sorted_nums == SortedDescBy(frequency_dict, ValueOf(frequency_dict))
        group_size == Len(sorted_nums) \div 6
    IN  [i \in DOMAIN sorted_nums |->
            <<sorted_nums[i][1], Min((i - 1) \div group_size, 6)>>]

rank_numbers(frequency_dict) ==
    LET sorted_nums == SortedDescBy(frequency_dict, ValueOf(frequency_dict))
        group_size == Len(sorted_nums) \div 7
    IN  [i \in DOMAIN sorted_nums |->
            <<sorted_nums[i][1], Min((i - 1) \div group_size, 6)>>]

-----------------------------------------------------------------------------
(* Inputs *)

D1 == <<3, 14, 22, 30, 41>>
D2 == <<7, 16, 24, 33, 42>>
D3 == <<5, 15, 25, 34, 40>>

\* histories a direct caller of the filter runs against
FilterHistories == {<<>>, <<D1>>, <<D2>>, <<D1, D2>>, <<D1, D2, D3>>}

\* what Fantasy5PredictionApp.generate_predictions assigns to the predictor:
\* the spinbox defaults, a loosened and a tightened setting
GuiSettings ==
    {[max_seq2 |-> 1, max_seq3 |-> 0, max_mod_tot |-> 2, sum_range |-> <<80, 120>>],
     [max_seq2 |-> 2, max_seq3 |-> 1, max_mod_tot |-> 3, sum_range |-> <<70, 130>>],
     [max_seq2 |-> 0, max_seq3 |-> 0, max_mod_tot |-> 1, sum_range |-> <<90, 110>>]}

\* numbers the probed combinations are built from: every decade band, both
\* parities, consecutive runs and shared last digits occur
ProbeNums == {3, 5, 7, 8, 14, 15, 16, 22, 24, 27, 30, 33, 34, 36, 40, 41, 42}

RECURSIVE SetToSeq(_)
SetToSeq(S) ==
    IF S = {} THEN <<>>
    ELSE LET m == CHOOSE x \in S : \A y \in S : x <= y
         IN  <<m>> \o SetToSeq(S \ {m})

\* well-formed arguments: 5 distinct numbers of 1..42, ascending
WellFormedCombos ==
    {SetToSeq(S) : S \in {T \in SUBSET ProbeNums : Cardinality(T) = nums_per_draw}}
        \cup {<<1, 2, 3, 4, 5>>, <<5, 16, 24, 33, 40>>, <<10, 11, 25, 26, 40>>}

\* malformed arguments: wrong length, a repeated number, a number outside 1..42
MalformedCombos ==
    {<<>>, <<1, 2, 3>>, <<5, 16, 24, 33, 40, 41>>,
     <<7, 7, 22, 31, 40>>, <<3, 3, 3, 3, 3>>,
     <<0, 14, 22, 31, 41>>, <<5, 16, 24, 33, 43>>, <<5, 16, 24, 30, 45>>}

ProbeCombos == WellFormedCombos \cup MalformedCombos

\* the arguments tried on calculate_stats and _calculate_score
StatsCombos ==
    MalformedCombos \cup {<<1, 2, 3, 4, 5>>, <<5, 16, 24, 33, 40>>, D1, D2,
                          <<8, 9, 11, 20, 33>>, <<38, 39, 40, 41, 42>>}

\* os.path.exists(file_path) is False
NoFile == [exists |-> FALSE, rows |-> <<>>]

NoStats == [n |-> 0, mean_n |-> 0, median_2 |-> 0, quart1_2 |-> 0, quart2_2 |-> 0,
            quart3_2 |-> 0, variance_nn |-> 0, avedev_nn |-> 0, skew |-> 0, kurt |-> 0]

-----------------------------------------------------------------------------
(* Direct calls of the three calculators on a constructed predictor *)

InitCalls ==
    /\ history \in FilterHistories
    /\ recent = Len(history)
    /\ count = 1
    /\ \E g \in GuiSettings :
          /\ max_seq2 = g.max_seq2
          /\ max_seq3 = g.max_seq3
          /\ max_mod_tot = g.max_mod_tot
          /\ sum_range = g.sum_range
    /\ pc = "idle"
    /\ frequency = get_rank_frequency(history, recent)
    /\ ranks = rank_numbers(frequency)
    /\ ranks_again = <<>>
    /\ most_frequent_nums = <<>>
    /\ comb_idx = <<>>
    /\ filtered_combinations = <<>>
    /\ weighted_nums = [n \in 1..42 |-> 0]
    /\ checked_combos = {}
    /\ attempts = 0
    /\ result = <<>>
    /\ op = "none"
    /\ combination = <<>>
    /\ outcome = "none"
    /\ rule = "none"
    /\ stats = NoStats
    /\ score = 0
    /\ csv_file = NoFile
    /\ earlier_results = <<>>

CallFilter ==
    /\ op = "none"
    /\ \E c \in ProbeCombos :
          LET r == filter_combination(c, history)
          IN  /\ combination' = c
              /\ outcome' = r.ret
              /\ rule' = r.rule
    /\ op' = "filter_combination"
    /\ UNCHANGED <<csv_file, earlier_results, history, recent, count, cfgVars, genVars, rankVars, stats, score>>

CallStats ==
    /\ op = "none"
    /\ \E c \in StatsCombos \cup WellFormedCombos :
          /\ combination' = c
          /\ stats' = calculate_stats(c)
    /\ op' = "calculate_stats"
    /\ outcome' = "returned"
    /\ UNCHANGED <<csv_file, earlier_results, history, recent, count, cfgVars, genVars, rankVars, rule, score>>

CallScore ==
    /\ op = "none"
    /\ \E c \in StatsCombos :
          /\ combination' = c
          /\ IF score_raises(c, ranks)
             THEN outcome' = "KeyError" /\ score' = score
             ELSE outcome' = "returned" /\ score' = _calculate_score(c, ranks)
    /\ op' = "_calculate_score"
    /\ UNCHANGED <<csv_file, earlier_results, history, recent, count, cfgVars, genVars, rankVars, rule, stats>>

NextCalls == CallFilter \/ CallStats \/ CallScore

SpecCalls == InitCalls /\ [][NextCalls]_vars

-----------------------------------------------------------------------------
(* The body of the two candidate loops (lines 335-340, 374-381) on one      *)
(* candidate: the score is computed only for a combination the filter       *)
(* accepts.                                                                 *)

InitSurvivor == InitCalls

FilterThenScore ==
    /\ op = "none"
    /\ \E c \in ProbeCombos :
          LET r == filter_combination(c, history)
          IN  /\ combination' = c
              /\ rule' = r.rule
              /\ IF r.ret # "True"
                 THEN outcome' = r.ret /\ UNCHANGED <<stats, score>>
                 ELSE /\ stats' = calculate_stats(c)
                      /\ IF score_raises(c, ranks)
                         THEN outcome' = "KeyError" /\ score' = score
                         ELSE outcome' = "True" /\ score' = _calculate_score(c, ranks)
    /\ op' = "candidate"
    /\ UNCHANGED <<csv_file, earlier_results, history, recent, count, cfgVars,
                   genVars, rankVars>>

NextSurvivor == FilterThenScore

SpecSurvivor == InitSurvivor /\ [][NextSurvivor]_vars

-----------------------------------------------------------------------------
(* generate_predictions *)

MaxCount == 2

\* rows of ga_f5_draws beside D1..D3
D4 == <<8, 16, 23, 31, 40>>
D5 == <<8, 9, 14, 22, 41>>
D6 == <<5, 10, 12, 21, 33>>
D7 == <<7, 10, 20, 21, 33>>

\* the database as the predictor finds it: the loaded history and how many of
\* its leading (most recent) draws fall in the 30-day window
Scenarios ==
    {[history |-> <<>>, recent |-> 0],
     [history |-> <<D5>>, recent |-> 1],
     [history |-> <<D6, D7>>, recent |-> 2],
     [history |-> <<D1, D2, D3, D4>>, recent |-> 4]}

\* what np.random.choice may hand back in Phase B, sorted: a survivor that
\* Phase A can also find, a draw of two copies of one number, a plain
\* combination, and one the filter rejects
SampleCombos ==
    {<<8, 9, 11, 20, 33>>, <<7, 7, 22, 31, 40>>, <<6, 17, 24, 31, 40>>,
     <<1, 2, 3, 4, 5>>}

Init ==
    /\ \E sc \in Scenarios : history = sc.history /\ recent = sc.recent
    /\ count \in 1..MaxCount
    /\ max_seq2 = 1
    /\ max_seq3 = 0
    /\ max_mod_tot = 2
    /\ sum_range = <<80, 120>>
    /\ pc = "start"
    /\ frequency = <<>>
    /\ ranks = <<>>
    /\ ranks_again = <<>>
    /\ most_frequent_nums = <<>>
    /\ comb_idx = <<>>
    /\ filtered_combinations = <<>>
    /\ weighted_nums = [n \in 1..42 |-> 0]
    /\ checked_combos = {}
    /\ attempts = 0
    /\ result = <<>>
    /\ op = "generate_predictions"
    /\ combination = <<>>
    /\ outcome = "none"
    /\ rule = "none"
    /\ stats = NoStats
    /\ score = 0
    /\ csv_file = NoFile
    /\ earlier_results = <<>>

\* line 319
GetRankFrequency ==
    /\ pc = "start"
    /\ frequency' = get_rank_frequency(history, recent)
    /\ pc' = "frequency"
    /\ UNCHANGED <<csv_file, earlier_results, history, recent, count, cfgVars, ranks, ranks_again,
                   most_frequent_nums, comb_idx, filtered_combinations,
                   weighted_nums, checked_combos, attempts, result, callVars>>

\* line 320
RankNumbers ==
    /\ pc = "frequency"
    /\ IF rank_numbers_raises(frequency)
       THEN pc' = "error" /\ outcome' = "ZeroDivisionError" /\ ranks' = ranks
       ELSE pc' = "ranked" /\ outcome' = outcome /\ ranks' = rank_numbers(frequency)
    /\ UNCHANGED <<csv_file, earlier_results, history, recent, count, cfgVars, frequency, ranks_again,
                   most_frequent_nums, comb_idx, filtered_combinations,
                   weighted_nums, checked_combos, attempts, result,
                   op, combination, rule, stats, score>>

\* itertools.combinations(pool, r): the first index tuple and its successor
FirstComb(r) == [i \in 1..r |-> i]

HasNextComb(idx, n) == \E i \in DOMAIN idx : idx[i] # i + n - Len(idx)

NextComb(idx, n) ==
    LET r == Len(idx)
        i == CHOOSE k \in 1..r :
                 /\ idx[k] # k + n - r
                 /\ \A j \in (k + 1)..r : idx[j] = j + n - r
    IN  [j \in 1..r |-> IF j < i THEN idx[j] ELSE idx[i] + 1 + (j - i)]

\* lines 323-331: the 15 best-ranked numbers, in the rank dict's order
BeginPhaseA ==
    /\ pc = "ranked"
    /\ filtered_combinations' = <<>>
    /\ most_frequent_nums' =
           LET best == Take(SortedAscBy(ranks, ValueOf(ranks)), 15)
           IN  [i \in DOMAIN best |-> best[i][1]]
    /\ comb_idx' = FirstComb(nums_per_draw)
    /\ pc' = "phaseA"
    /\ UNCHANGED <<csv_file, earlier_results, history, recent, count, cfgVars, rankVars, weighted_nums,
                   checked_combos, attempts, result, callVars>>

\* lines 336-347: the dict appended for a survivor
Scored(c) ==
    [combination |-> c,
     score |-> _calculate_score(c, ranks),
     sum |-> SumSeq(c),
     stats |-> calculate_stats(c)]

\* mutant: the enumeration breaks one survivor late
PhaseABreaks_OneLate(n) == n > count * 2

\* lines 349-350: the break of the enumeration
PhaseABreaks(n) == n >= count * 2

\* lines 333-350: one iteration of the enumeration
PhaseAStep ==
    /\ pc = "phaseA"
    /\ LET c == sorted([i \in 1..nums_per_draw |-> most_frequent_nums[comb_idx[i]]])
           r == filter_combination(c, history)
           grown == Append(filtered_combinations, Scored(c))
       IN  /\ IF r.ret = "IndexError"
              THEN /\ pc' = "error"
                   /\ outcome' = "IndexError"
                   /\ UNCHANGED <<filtered_combinations, comb_idx>>
              ELSE /\ outcome' = outcome
                   /\ filtered_combinations' =
                          IF r.ret = "True" THEN grown ELSE filtered_combinations
                   /\ IF r.ret = "True" /\ PhaseABreaks(Len(grown))
                      THEN pc' = "phaseA_done" /\ comb_idx' = comb_idx
                      ELSE IF HasNextComb(comb_idx, Len(most_frequent_nums))
                      THEN /\ pc' = pc
                           /\ comb_idx' = NextComb(comb_idx, Len(most_frequent_nums))
                      ELSE pc' = "phaseA_done" /\ comb_idx' = comb_idx
    /\ UNCHANGED <<csv_file, earlier_results, history, recent, count, cfgVars, rankVars, most_frequent_nums,
                   weighted_nums, checked_combos, attempts, result,
                   op, combination, rule, stats, score>>

\* lines 357-361: number -> copies of it in the replicated list;
\* int(1/(freq+1) * 10) is floor(10/(freq+1)) for every freq >= 0
ReplicatedPool(freq) ==
    [n \in 1..42 |-> IF n \in Keys(freq) THEN 10 \div (Lookup(freq, n) + 1) ELSE 0]

PoolSize(pool) == SumSeq([n \in 1..42 |-> pool[n]])

\* 5 list positions drawn without replacement can hold c
Drawable(c, pool) ==
    \A n \in Range(c) :
        n \in DOMAIN pool /\ Cardinality({i \in DOMAIN c : c[i] = n}) <= pool[n]

\* lines 353-365
BeginPhaseB ==
    /\ pc = "phaseA_done"
    /\ Len(filtered_combinations) < count
    /\ weighted_nums' = ReplicatedPool(frequency)
    /\ checked_combos' = {filtered_combinations[i].combination :
                              i \in DOMAIN filtered_combinations}
    /\ attempts' = 0
    /\ pc' = "phaseB"
    /\ UNCHANGED <<csv_file, earlier_results, history, recent, count, cfgVars, rankVars, most_frequent_nums,
                   comb_idx, filtered_combinations, result, callVars>>

\* mutant: sampling stops at `count` survivors instead of twice as many
PhaseBContinues_UntilCount(n, tried) == n < count /\ tried < 10000

\* mutant: the cap lets one more attempt through
PhaseBContinues_OneMore(n, tried) == n < count * 2 /\ tried <= 10000

\* line 367: the while condition
PhaseBContinues(n, tried) == n < count * 2 /\ tried < 10000

\* mutant: the seen-set is not consulted
NotChecked_Always(c, seen) == TRUE

\* line 374: the candidate is new
NotChecked(c, seen) == c \notin seen

\* lines 367-388: one iteration of the sampling loop
PhaseBStep ==
    /\ pc = "phaseB"
    /\ PhaseBContinues(Len(filtered_combinations), attempts)
    /\ attempts' = attempts + 1
    /\ IF PoolSize(weighted_nums) < nums_per_draw
       THEN /\ pc' = "error"
            /\ outcome' = "ValueError"
            /\ UNCHANGED <<filtered_combinations, checked_combos>>
       ELSE \E c \in SampleCombos :
               /\ Drawable(c, weighted_nums)
               /\ IF NotChecked(c, checked_combos)
                  THEN LET r == filter_combination(c, history)
                       IN  IF r.ret = "IndexError"
                           THEN /\ pc' = "error"
                                /\ outcome' = "IndexError"
                                /\ UNCHANGED <<filtered_combinations, checked_combos>>
                           ELSE IF r.ret = "True"
                           THEN /\ pc' = pc
                                /\ outcome' = outcome
                                /\ checked_combos' = checked_combos \cup {c}
                                /\ filtered_combinations' =
                                       Append(filtered_combinations, Scored(c))
                           ELSE /\ pc' = pc
                                /\ outcome' = outcome
                                /\ UNCHANGED <<filtered_combinations, checked_combos>>
                  ELSE /\ pc' = pc
                       /\ outcome' = outcome
                       /\ UNCHANGED <<filtered_combinations, checked_combos>>
    /\ UNCHANGED <<csv_file, earlier_results, history, recent, count, cfgVars, rankVars, most_frequent_nums,
                   comb_idx, weighted_nums, result,
                   op, combination, rule, stats, score>>

\* mutant: reverse=True forgotten
sorted_combinations_Ascending(found) ==
    SortedAscBy(found, [x \in Range(found) |-> x.score])

\* line 391: sorted(filtered_combinations, key=score, reverse=True)
sorted_combinations(found) ==
    SortedDescBy(found, [x \in Range(found) |-> x.score])

\* line 392
Truncate(found, n) == Take(found, n)

\* lines 390-392, reached when Phase B is skipped or its loop ends
Return ==
    /\ \/ pc = "phaseA_done" /\ ~(Len(filtered_combinations) < count)
       \/ pc = "phaseB" /\ ~PhaseBContinues(Len(filtered_combinations), attempts)
    /\ result' = Truncate(sorted_combinations(filtered_combinations), count)
    /\ pc' = "done"
    /\ outcome' = "returned"
    /\ UNCHANGED <<csv_file, earlier_results, history, recent, count, cfgVars, rankVars, most_frequent_nums,
                   comb_idx, filtered_combinations, weighted_nums, checked_combos,
                   attempts, op, combination, rule, stats, score>>

Next ==
    \/ GetRankFrequency
    \/ RankNumbers
    \/ BeginPhaseA
    \/ PhaseAStep
    \/ BeginPhaseB
    \/ PhaseBStep
    \/ Return

Spec == Init /\ [][Next]_vars

-----------------------------------------------------------------------------
(* generate_predictions called twice on one predictor: the same loaded      *)
(* history, the same settings, the same count.  The method takes `count`    *)
(* only; np.random.choice draws from numpy's process-wide generator, which  *)
(* nothing in the program seeds.                                             *)

InitTwice ==
    /\ Init
    /\ history = <<D5>>
    /\ recent = 1
    /\ count = 1

\* the second call: the first list is kept by the caller, the locals of
\* lines 319-365 start afresh
CallAgain ==
    /\ pc = "done"
    /\ earlier_results = <<>>
    /\ earlier_results' = <<result>>
    /\ pc' = "start"
    /\ frequency' = <<>>
    /\ ranks' = <<>>
    /\ most_frequent_nums' = <<>>
    /\ comb_idx' = <<>>
    /\ filtered_combinations' = <<>>
    /\ weighted_nums' = [n \in 1..42 |-> 0]
    /\ checked_combos' = {}
    /\ attempts' = 0
    /\ result' = <<>>
    /\ outcome' = "none"
    /\ UNCHANGED <<csv_file, history, recent, count, cfgVars, ranks_again,
                   op, combination, rule, stats, score>>

NextTwice == Next \/ CallAgain

SpecTwice == InitTwice /\ [][NextTwice]_vars

-----------------------------------------------------------------------------
(* The frequency ranker on its own: lines 319-320 over many histories *)

MaxRankedDraws == 3

RankDraws == {D1, D2, D3, D4, D5, D6}

InitRank ==
    /\ history \in UNION {[1..k -> RankDraws] : k \in 0..MaxRankedDraws}
    /\ recent \in 0..Len(history)
    /\ count = 1
    /\ max_seq2 = 1
    /\ max_seq3 = 0
    /\ max_mod_tot = 2
    /\ sum_range = <<80, 120>>
    /\ pc = "start"
    /\ frequency = <<>>
    /\ ranks = <<>>
    /\ ranks_again = <<>>
    /\ most_frequent_nums = <<>>
    /\ comb_idx = <<>>
    /\ filtered_combinations = <<>>
    /\ weighted_nums = [n \in 1..42 |-> 0]
    /\ checked_combos = {}
    /\ attempts = 0
    /\ result = <<>>
    /\ op = "rank_numbers"
    /\ combination = <<>>
    /\ outcome = "none"
    /\ rule = "none"
    /\ stats = NoStats
    /\ score = 0
    /\ csv_file = NoFile
    /\ earlier_results = <<>>

\* rank_numbers called a second time on the same dict
RankNumbersAgain ==
    /\ pc = "ranked"
    /\ ranks_again' = rank_numbers(frequency)
    /\ pc' = "reranked"
    /\ UNCHANGED <<csv_file, earlier_results, history, recent, count, cfgVars, frequency, ranks,
                   most_frequent_nums, comb_idx, filtered_combinations,
                   weighted_nums, checked_combos, attempts, result, callVars>>

NextRank == GetRankFrequency \/ RankNumbers \/ RankNumbersAgain

SpecRank == InitRank /\ [][NextRank]_vars

-----------------------------------------------------------------------------
(* rank_numbers called directly on a caller's table.  The universe is 1..k   *)
(* and the dict is built as get_rank_frequency builds it, keys ascending.   *)

MaxUniverse == 8

TableHits == 0..2

SmallTables ==
    UNION {{[num \in 1..k |-> <<num, f[num]>>] : f \in [1..k -> TableHits]} :
              k \in 0..MaxUniverse}

InitTable ==
    /\ history = <<>>
    /\ recent = 0
    /\ count = 1
    /\ max_seq2 = 1
    /\ max_seq3 = 0
    /\ max_mod_tot = 2
    /\ sum_range = <<80, 120>>
    /\ pc = "idle"
    /\ frequency \in SmallTables
    /\ ranks = <<>>
    /\ ranks_again = <<>>
    /\ most_frequent_nums = <<>>
    /\ comb_idx = <<>>
    /\ filtered_combinations = <<>>
    /\ weighted_nums = [n \in 1..42 |-> 0]
    /\ checked_combos = {}
    /\ attempts = 0
    /\ result = <<>>
    /\ op = "none"
    /\ combination = <<>>
    /\ outcome = "none"
    /\ rule = "none"
    /\ stats = NoStats
    /\ score = 0
    /\ csv_file = NoFile
    /\ earlier_results = <<>>

\* lines 219-241 on the caller's dict
CallRankNumbers ==
    /\ op = "none"
    /\ IF rank_numbers_raises(frequency)
       THEN outcome' = "ZeroDivisionError" /\ ranks' = ranks
       ELSE outcome' = "returned" /\ ranks' = rank_numbers(frequency)
    /\ op' = "rank_numbers"
    /\ UNCHANGED <<csv_file, earlier_results, history, recent, count, cfgVars,
                   genVars, frequency, ranks_again, combination, rule, stats, score>>

NextTable == CallRankNumbers

SpecTable == InitTable /\ [][NextTable]_vars

-----------------------------------------------------------------------------
(* _calculate_score called with a caller's rank table over 1..42 *)

\* rank dicts with every rank 0..6 in use, and the seven constant ones
RankTables ==
    {[num \in 1..42 |-> <<num, (num * a + b) % 7>>] : a \in {0, 1, 3}, b \in 0..6}

\* the probed combinations and the extremes of sum, parity and decade spread
ScoreCombos ==
    ProbeCombos \cup StatsCombos
        \cup {<<1, 3, 5, 7, 9>>, <<2, 4, 6, 8, 10>>, <<34, 36, 38, 40, 42>>,
              <<20, 21, 22, 23, 24>>, <<1, 10, 20, 30, 40>>, <<4, 15, 21, 30, 40>>}

InitScore ==
    /\ history = <<>>
    /\ recent = 0
    /\ count = 1
    /\ max_seq2 = 1
    /\ max_seq3 = 0
    /\ max_mod_tot = 2
    /\ sum_range = <<80, 120>>
    /\ pc = "idle"
    /\ frequency = <<>>
    /\ ranks \in RankTables
    /\ ranks_again = <<>>
    /\ most_frequent_nums = <<>>
    /\ comb_idx = <<>>
    /\ filtered_combinations = <<>>
    /\ weighted_nums = [n \in 1..42 |-> 0]
    /\ checked_combos = {}
    /\ attempts = 0
    /\ result = <<>>
    /\ op = "none"
    /\ combination = <<>>
    /\ outcome = "none"
    /\ rule = "none"
    /\ stats = NoStats
    /\ score = 0
    /\ csv_file = NoFile
    /\ earlier_results = <<>>

\* lines 394-444 on the caller's combination
CallScoreWith ==
    /\ op = "none"
    /\ \E c \in ScoreCombos :
          /\ combination' = c
          /\ IF score_raises(c, ranks)
             THEN outcome' = "KeyError" /\ score' = score
             ELSE outcome' = "returned" /\ score' = _calculate_score(c, ranks)
    /\ op' = "_calculate_score"
    /\ UNCHANGED <<csv_file, earlier_results, history, recent, count, cfgVars,
                   genVars, rankVars, rule, stats>>

NextScore == CallScoreWith

SpecScore == InitScore /\ [][NextScore]_vars

-----------------------------------------------------------------------------
(* src/temp1.py: load_rank_limits_from_file, load_rank_counts_from_file.     *)
(* The file is what csv.reader yields from it: a sequence of rows, a row a   *)
(* sequence of fields, a field a sequence of characters.                     *)

DefaultLimits == <<1, 1, 2, 3, 2, 3, 1, 1>>

DefaultCounts ==
    <<5, 5, 2, 1, 3, 5, 3, 5, 5, 5, 5, 4, 2, 5, 5, 3, 5, 4, 0, 4, 5,
      2, 4, 5, 3, 5, 5, 0, 4, 3, 2, 1, 4, 5, 3, 5, 1, 4, 3, 3, 2, 5>>

\* int(field): surrounding blanks are dropped, one leading "-" is the sign,
\* the rest must be one or more digits, else ValueError
Digit == [ch \in {"7"} |-> 7]

RECURSIVE lstrip(_)
lstrip(f) == IF f # <<>> /\ Head(f) = " " THEN lstrip(Tail(f)) ELSE f

RECURSIVE rstrip(_)
rstrip(f) ==
    IF f # <<>> /\ f[Len(f)] = " " THEN rstrip(SubSeq(f, 1, Len(f) - 1)) ELSE f

strip(f) == rstrip(lstrip(f))

Digits(f) ==
    LET body == strip(f)
    IN  IF body # <<>> /\ Head(body) = "-" THEN Tail(body) ELSE body

int_raises(f) ==
    Digits(f) = <<>> \/ \E i \in DOMAIN Digits(f) : Digits(f)[i] \notin DOMAIN Digit

RECURSIVE DigitsValue(_)
DigitsValue(ds) ==
    IF ds = <<>> THEN 0
    ELSE 10 * DigitsValue(SubSeq(ds, 1, Len(ds) - 1)) + Digit[ds[Len(ds)]]

int(f) ==
    LET body == strip(f)
    IN  IF Head(body) = "-" THEN 0 - DigitsValue(Digits(f)) ELSE DigitsValue(Digits(f))

\* mutant: the handler names the conversion error only
Catches_ValueErrorOnly(e) == e = "ValueError"

\* lines 33 and 65: `except Exception`
Catches(e) == e \in {"StopIteration", "ValueError"}

\* lines 16-36 and 48-68: the two bodies differ in the fallback list only
LoadSecondRow(f, fallback) ==
    IF ~f.exists THEN [ret |-> fallback, raised |-> "none"]
    ELSE LET e == IF Len(f.rows) < 2 THEN "StopIteration"
                  ELSE IF \E i \in DOMAIN f.rows[2] : int_raises(f.rows[2][i])
                       THEN "ValueError"
                  ELSE "none"
         IN  IF e = "none"
             THEN [ret |-> [i \in DOMAIN f.rows[2] |-> int(f.rows[2][i])],
                   raised |-> "none"]
             ELSE IF Catches(e) THEN [ret |-> fallback, raised |-> "none"]
             ELSE [ret |-> <<>>, raised |-> e]

load_rank_limits_from_file(f) == LoadSecondRow(f, DefaultLimits)

load_rank_counts_from_file(f) == LoadSecondRow(f, DefaultCounts)

MaxFieldLen == 2

MaxRowLen == 2

FieldChars == {"7", "-", " "}

Fields == UNION {[1..k -> FieldChars] : k \in 0..MaxFieldLen}

Rows == UNION {[1..k -> Fields] : k \in 0..MaxRowLen}

\* a header line, or a first line that is already data
HeaderRows == {<<<<"-">>, <<"-">>>>, <<<<"7">>>>}

CsvFiles ==
    {NoFile} \cup
    {[exists |-> TRUE, rows |-> r] :
        r \in {<<>>} \cup {<<h>> : h \in HeaderRows}
                \cup {<<h, d>> : h \in HeaderRows, d \in Rows}
                \cup {<<h, d, <<<<"7">>>>>> :
                         h \in HeaderRows, d \in {<<>>, <<<<"7">>>>, <<<<"-">>>>}}}

InitLoad ==
    /\ history = <<>>
    /\ recent = 0
    /\ count = 1
    /\ max_seq2 = 1
    /\ max_seq3 = 0
    /\ max_mod_tot = 2
    /\ sum_range = <<80, 120>>
    /\ pc = "idle"
    /\ frequency = <<>>
    /\ ranks = <<>>
    /\ ranks_again = <<>>
    /\ most_frequent_nums = <<>>
    /\ comb_idx = <<>>
    /\ filtered_combinations = <<>>
    /\ weighted_nums = [n \in 1..42 |-> 0]
    /\ checked_combos = {}
    /\ attempts = 0
    /\ result = <<>>
    /\ op = "none"
    /\ combination = <<>>
    /\ outcome = "none"
    /\ rule = "none"
    /\ stats = NoStats
    /\ score = 0
    /\ csv_file \in CsvFiles
    /\ earlier_results = <<>>

CallLoadRankLimits ==
    /\ op = "none"
    /\ LET r == load_rank_limits_from_file(csv_file)
       IN  /\ result' = r.ret
           /\ outcome' = IF r.raised = "none" THEN "returned" ELSE r.raised
    /\ op' = "load_rank_limits_from_file"
    /\ UNCHANGED <<csv_file, earlier_results, history, recent, count, cfgVars,
                   rankVars, pc, most_frequent_nums, comb_idx,
                   filtered_combinations, weighted_nums, checked_combos,
                   attempts, combination, rule, stats, score>>

CallLoadRankCounts ==
    /\ op = "none"
    /\ LET r == load_rank_counts_from_file(csv_file)
       IN  /\ result' = r.ret
           /\ outcome' = IF r.raised = "none" THEN "returned" ELSE r.raised
    /\ op' = "load_rank_counts_from_file"
    /\ UNCHANGED <<csv_file, earlier_results, history, recent, count, cfgVars,
                   rankVars, pc, most_frequent_nums, comb_idx,
                   filtered_combinations, weighted_nums, checked_combos,
                   attempts, combination, rule, stats, score>>

NextLoad == CallLoadRankLimits \/ CallLoadRankCounts

SpecLoad == InitLoad /\ [][NextLoad]_vars

-----------------------------------------------------------------------------
(* Properties of the direct calls (SpecCalls) *)

DecadeBands == {1..9, 10..19, 20..29, 30..39, 40..42}

EvenMembers(c) == Cardinality({i \in DOMAIN c : c[i] % 2 = 0})

MembersIn(c, band) == Cardinality({i \in DOMAIN c : c[i] \in band})

WellFormed(c) ==
    /\ Len(c) = 5
    /\ \A i \in DOMAIN c : c[i] \in 1..42
    /\ \A i, j \in DOMAIN c : i # j => c[i] # c[j]

\* numbers the combination shares with the union of the k most recent draws
SharedWithLast(k) ==
    Cardinality(Range(combination)
                    \cap UNION {Range(history[j]) : j \in 1..Min(k, Len(history))})

FilterCalled == op = "filter_combination"

\* C1: a combination filter_combination accepts has 2 or 3 even members, a
\* sum within 80..120 and at most 2 members in each of the five decade bands.
C1_AcceptedIsBalanced ==
    (FilterCalled /\ outcome = "True") =>
        /\ EvenMembers(combination) \in {2, 3}
        /\ 80 <= SumSeq(combination) /\ SumSeq(combination) <= 120
        /\ \A band \in DecadeBands : MembersIn(combination, band) <= 2

C1_Witness ==
    /\ FilterCalled /\ outcome = "True"
    /\ EvenMembers(combination) = 3
    /\ \E band \in DecadeBands : MembersIn(combination, band) = 2
    /\ SumSeq(combination) = 120

\* C2: every threshold is the caller's setting: a combination that reaches
\* the run-length rule is rejected there exactly when seq2 > max_seq2 or
\* seq3 > max_seq3, one that reaches the modular rule exactly when
\* mod_total > max_mod_tot or mod_x > 0, and one that reaches the sum rule
\* exactly when its sum is outside sum_range.
C2_ThresholdsFromSettings ==
    FilterCalled =>
        LET c == combination
            s == count_sequential_numbers(c)
            m == calculate_modular_total(c)
            total == SumSeq(c)
        IN  /\ rule \notin {"length", "parity"} =>
                  (rule = "sequential" <=> (s[1] > max_seq2 \/ s[2] > max_seq3))
            /\ rule \notin {"length", "parity", "sequential"} =>
                  (rule = "modular" <=> (m[1] > max_mod_tot \/ m[2] > 0))
            /\ (rule = "sum" \/ outcome = "True") =>
                  (rule = "sum" <=> ~(sum_range[1] <= total /\ total <= sum_range[2]))

\* C3: with no draw in the history, a combination that satisfies the parity,
\* run-length, modular, decade and sum rules is accepted.
C3_EmptyHistoryAccepts ==
    (/\ FilterCalled
     /\ history = <<>>
     /\ WellFormed(combination)
     /\ ~ParityRejects(combination)
     /\ ~SequentialRejects(combination)
     /\ ~ModularRejects(combination)
     /\ ~DecadeRejects(combination)
     /\ ~SumRejects(combination)) => outcome = "True"

\* C8: against the single draw [3,14,22,30,41] the filter rejects
\* [3,14,22,30,41] on the most-recent-draw overlap and accepts
\* [5,16,24,33,40]; and it rejects every combination that shares more than 1
\* number with the most recent draw, more than 2 with the last 2 draws or
\* more than 3 with the last 3 draws.
C8_OverlapRules ==
    FilterCalled =>
        /\ (history = <<D1>> /\ combination = D1) =>
               (outcome = "False" /\ rule = "overlap1")
        /\ (history = <<D1>> /\ combination = <<5, 16, 24, 33, 40>>) =>
               outcome = "True"
        /\ (\/ SharedWithLast(1) > 1
            \/ SharedWithLast(2) > 2
            \/ SharedWithLast(3) > 3) => outcome = "False"

C8_Witness ==
    /\ FilterCalled
    /\ history = <<D1>> /\ combination = D1
    /\ SharedWithLast(1) = 5
    /\ outcome = "False"

\* C10: a malformed combination given to filter_combination, calculate_stats
\* or _calculate_score is signalled as InvalidCombination: never True, never
\* False, never statistics or a score.
C10_MalformedIsSignalled ==
    (op # "none" /\ ~WellFormed(combination)) => outcome = "InvalidCombination"

\* C14: for 5 values, in ascending order x0..x4, calculate_stats returns
\* median x2, quart1 (x0+x1)/2, quart2 (x1+x2)/2, quart3 (x2+x3)/2, the
\* population variance (mean of the squared distances from the mean), the
\* mean absolute distance from the mean, and skew = kurt = 0; for [1,2,3,4,5]
\* mean 3, median 3, quartiles 1.5, 2.5, 3.5, variance 2 and avedev 1.2.
\* (median and quartiles are held doubled, mean times 5, variance and avedev
\* times 25.)
C14_StatsOfFive ==
    (op = "calculate_stats" /\ WellFormed(combination)) =>
        LET x == SetToSeq(Range(combination))
            total == x[1] + x[2] + x[3] + x[4] + x[5]
        IN  /\ stats.n = 5
            /\ stats.mean_n = total
            /\ stats.median_2 = 2 * x[3]
            /\ stats.quart1_2 = x[1] + x[2]
            /\ stats.quart2_2 = x[2] + x[3]
            /\ stats.quart3_2 = x[3] + x[4]
            /\ 5 * stats.variance_nn =
                   SumSeq([i \in 1..5 |-> (5 * x[i] - total) * (5 * x[i] - total)])
            /\ stats.avedev_nn = SumSeq([i \in 1..5 |-> Abs(5 * x[i] - total)])
            /\ stats.skew = 0 /\ stats.kurt = 0
            /\ combination = <<1, 2, 3, 4, 5>> =>
                   /\ stats.mean_n = 3 * 5
                   /\ stats.median_2 = 3 * 2
                   /\ stats.quart1_2 = 3 /\ stats.quart2_2 = 5 /\ stats.quart3_2 = 7
                   /\ stats.variance_nn = 2 * 25
                   /\ stats.avedev_nn = 30

C14_Witness ==
    /\ op = "calculate_stats"
    /\ combination = <<1, 2, 3, 4, 5>>
    /\ outcome = "returned"
    /\ stats.mean_n = 15
    /\ stats.variance_nn = 50
    /\ stats.quart1_2 = 3

OneToFive == <<1, 2, 3, 4, 5>>

\* C15 as stated: against a history it shares no number with, [1,2,3,4,5]
\* is rejected by the sum rule and violates no other rule.
C15_RejectedOnSumOnly ==
    (/\ FilterCalled
     /\ combination = OneToFive
     /\ history # <<>>
     /\ SharedWithLast(3) = 0) =>
        /\ outcome = "False"
        /\ rule = "sum"
        /\ ~ParityRejects(combination)
        /\ ~SequentialRejects(combination)
        /\ ~ModularRejects(combination)
        /\ ~DecadeRejects(combination)

\* C15 amended: [1,2,3,4,5] is rejected against every history, by the
\* run-length rule (4 adjacent pairs, 3 adjacent triples); it violates the
\* decade rule and the sum rule as well, and neither parity nor modular.
C15_RejectedOnRunLength ==
    (FilterCalled /\ combination = OneToFive) =>
        /\ outcome = "False"
        /\ rule = "sequential"
        /\ count_sequential_numbers(combination) = <<4, 3>>
        /\ MembersIn(combination, 1..9) = 5
        /\ SumSeq(combination) = 15
        /\ ~ParityRejects(combination)
        /\ ~ModularRejects(combination)
        /\ DecadeRejects(combination)
        /\ SumRejects(combination)

C15_Witness ==
    /\ FilterCalled
    /\ combination = OneToFive
    /\ history = <<D2>>
    /\ SharedWithLast(3) = 0
    /\ outcome = "False"

AllRulesHold ==
    /\ ~ParityRejects(combination)
    /\ ~SequentialRejects(combination)
    /\ ~ModularRejects(combination)
    /\ ~DecadeRejects(combination)
    /\ SharedWithLast(1) <= 1
    /\ SharedWithLast(2) <= 2
    /\ SharedWithLast(3) <= 3
    /\ ~SumRejects(combination)

\* C16: for a 5-number combination and a history of any length, 0 included,
\* filter_combination returns True when the parity, run-length, modular,
\* decade, overlap-1, overlap-2, overlap-3 and sum rules all hold and False
\* when one of them fails, whatever the order the rules are evaluated in.
C16_OrderIndependent ==
    (FilterCalled /\ WellFormed(combination)) =>
        outcome = IF AllRulesHold THEN "True" ELSE "False"

-----------------------------------------------------------------------------
(* Properties of the frequency ranker (SpecRank) *)

RankGroup(r) == {i \in DOMAIN ranks : ranks[i][2] = r}

Hits(num) == frequency[num][2]

\* C18: the rank table lists the numbers by descending frequency, equal
\* frequencies by ascending number, and rank 0 is the most frequent group:
\* a more frequent number never has a higher rank than a less frequent one,
\* and of two equally frequent numbers the smaller never has the higher rank.
C18_FrequentFirst ==
    pc \in {"ranked", "reranked"} =>
        /\ \A n \in DOMAIN frequency : frequency[n][1] = n
        /\ Keys(ranks) = Keys(frequency)
        /\ \A i, j \in DOMAIN ranks :
               LET a == ranks[i][1]
                   b == ranks[j][1]
               IN  /\ i < j => (Hits(a) > Hits(b) \/ (Hits(a) = Hits(b) /\ a < b))
                   /\ Hits(a) > Hits(b) => ranks[i][2] <= ranks[j][2]
                   /\ (Hits(a) = Hits(b) /\ a < b) => ranks[i][2] <= ranks[j][2]
        /\ ranks[1][2] = 0
        /\ \A n \in DOMAIN frequency : Hits(n) <= Hits(ranks[1][1])

\* a larger number outranks a smaller one by frequency, and a tie is split
\* across two rank groups with the smaller number in the better one
C18_Witness ==
    /\ pc = "ranked"
    /\ \E i, j \in DOMAIN ranks :
           /\ ranks[i][1] > ranks[j][1]
           /\ Hits(ranks[i][1]) > Hits(ranks[j][1])
           /\ ranks[i][2] < ranks[j][2]
    /\ \E i, j \in DOMAIN ranks :
           /\ ranks[i][1] < ranks[j][1]
           /\ Hits(ranks[i][1]) = Hits(ranks[j][1])
           /\ Hits(ranks[i][1]) > 0
           /\ ranks[i][2] < ranks[j][2]

-----------------------------------------------------------------------------
(* Properties of generate_predictions (Spec) *)

Combinations(found) == {found[i].combination : i \in DOMAIN found}

Ascending(c) == \A i \in 1..(Len(c) - 1) : c[i] < c[i + 1]

\* C4: every returned combination is 5 pairwise distinct numbers of 1..42 in
\* ascending order.
C4_ReturnedAreCombinations ==
    pc = "done" =>
        \A i \in DOMAIN result :
            WellFormed(result[i].combination) /\ Ascending(result[i].combination)

NoRepeat(found) ==
    \A i, j \in DOMAIN found : i # j => found[i].combination # found[j].combination

\* C5: no combination is collected twice, by Phase A or by Phase B, and none
\* appears twice in the returned list.
C5_NoCombinationTwice == NoRepeat(filtered_combinations) /\ NoRepeat(result)

\* Phase B ran on top of a Phase A survivor that it can draw again, some
\* attempts appended nothing, and more than one survivor was returned from
C5_Witness ==
    /\ pc = "done"
    /\ attempts > Len(filtered_combinations)
    /\ Len(filtered_combinations) > 1
    /\ filtered_combinations[1].combination \in SampleCombos
    /\ Range(filtered_combinations[1].combination) \subseteq Range(most_frequent_nums)
    /\ Len(result) > 1

\* C6: the returned list has at most `count` entries, its scores do not
\* increase, its entries are survivors, and no survivor left out scores
\* higher than a returned one.
C6_TopByScore ==
    pc = "done" =>
        /\ Len(result) <= count
        /\ \A i, j \in DOMAIN result : i < j => result[i].score >= result[j].score
        /\ Range(result) \subseteq Range(filtered_combinations)
        /\ \A x \in Range(filtered_combinations) \ Range(result) :
               \A r \in Range(result) : x.score <= r.score

C6_Witness ==
    /\ pc = "done"
    /\ Len(filtered_combinations) > count
    /\ Len(result) = count
    /\ \E x \in Range(filtered_combinations) \ Range(result) :
           x.score < result[Len(result)].score
    /\ filtered_combinations[1].score < result[1].score

StageOf(p) ==
    CASE p = "start" -> 0
      [] p = "frequency" -> 1
      [] p = "ranked" -> 2
      [] p = "phaseA" -> 3
      [] p = "phaseA_done" -> 4
      [] p = "phaseB" -> 5
      [] OTHER -> 6

\* a is before b in the order itertools.combinations yields index tuples
LexLess(a, b) ==
    \E k \in DOMAIN a : a[k] < b[k] /\ \A j \in 1..(k - 1) : a[j] = b[j]

\* one step of generate_predictions moves forward: to a later stage, to the
\* next index tuple of Phase A, or to one more attempt of Phase B, of which
\* there are never more than 10,000; with the cap used up the step returns
C7_Step ==
    /\ \/ StageOf(pc') > StageOf(pc)
       \/ pc' = pc /\ pc \in {"phaseA", "phaseB"}
    /\ (pc = "phaseA" /\ pc' = "phaseA") => LexLess(comb_idx, comb_idx')
    /\ (pc = "phaseB" /\ pc' # "done") => attempts' = attempts + 1
    /\ attempts' <= 10000
    /\ (pc = "phaseB" /\ attempts = 10000) =>
           /\ pc' = "done"
           /\ outcome' = "returned"
           /\ Range(result') \subseteq Range(filtered_combinations)
           /\ Len(result') = Min(count, Len(filtered_combinations))

\* C7: generate_predictions ends: every step makes progress in a bounded
\* order, Phase B makes at most 10,000 attempts, each iteration counting as
\* one, and when the cap is used up before 2*count survivors exist the
\* survivors found so far are returned as an ordinary result.
C7_BoundedSampling == [][C7_Step]_vars

C7_Witness ==
    /\ pc = "done"
    /\ outcome = "returned"
    /\ attempts = 10000
    /\ Len(filtered_combinations) < 2 * count
    /\ Len(result) = 1
    /\ Len(result) < count

Survivors == Len(filtered_combinations)

\* one step of generate_predictions: the enumeration goes on only below
\* 2*count survivors and ends on reaching them or on running out of index
\* tuples; sampling starts only below `count` survivors, an attempt is made
\* only below 2*count, and sampling ends on 2*count or on the attempt cap
C17_Step ==
    /\ pc = "phaseA" =>
           /\ Survivors < 2 * count
           /\ pc' = "phaseA" => Survivors' < 2 * count
           /\ Survivors' >= 2 * count => pc' = "phaseA_done"
           /\ pc' = "phaseA_done" =>
                  \/ Survivors' = 2 * count
                  \/ ~HasNextComb(comb_idx, Len(most_frequent_nums))
    /\ pc = "phaseA_done" =>
           /\ Survivors >= count => (pc' = "done" /\ attempts' = 0)
           /\ pc' = "phaseB" => Survivors < count
    /\ attempts' # attempts => (pc = "phaseB" /\ Survivors < 2 * count)
    /\ pc = "phaseB" =>
           /\ Survivors >= 2 * count => pc' = "done"
           /\ pc' = "done" => (Survivors = 2 * count \/ attempts = 10000)

\* C17: Phase A stops as soon as 2*count survivors are collected; Phase B
\* makes attempts only if Phase A ended with fewer than `count` survivors,
\* and once started it stops as soon as the survivors number 2*count.
C17_PhaseTargets == [][C17_Step]_vars

\* sampling started after an empty Phase A and stopped on 2*count survivors
\* before the cap
C17_Witness ==
    /\ pc = "done"
    /\ attempts > 0
    /\ attempts < 10000
    /\ Survivors = 2 * count
    /\ \E i \in DOMAIN filtered_combinations :
           ~(Range(filtered_combinations[i].combination)
                 \subseteq Range(most_frequent_nums))

\* C20: at every point of generate_predictions the survivors collected
\* number at most 2*count and the Phase B attempts at most 10,000.
C20_CollectedAndAttemptsBounded ==
    /\ count >= 1
    /\ Survivors <= 2 * count
    /\ attempts <= 10000

\* both limits met at once: the last permitted attempt found the last
\* survivor wanted
C20_Witness ==
    /\ pc = "phaseB"
    /\ attempts = 10000
    /\ Survivors = 2 * count

-----------------------------------------------------------------------------
(* Properties of two calls of generate_predictions (SpecTwice) *)

\* C19: generate_predictions is determined by its inputs: a second run on
\* the same history, the same settings and the same count returns the list
\* the first run returned.
C19_SameInputsSameResult ==
    (pc = "done" /\ Len(earlier_results) = 1) => result = earlier_results[1]

-----------------------------------------------------------------------------
(* Properties of rank_numbers on a small table (SpecTable) *)

\* C11: given a table of fewer than 7 entries, rank_numbers does not divide
\* by zero: it returns a rank table that gives every number of the table
\* rank 6.
C11_SmallTableAllSix ==
    (op = "rank_numbers" /\ Len(frequency) < 7) =>
        /\ outcome = "returned"
        /\ Keys(ranks) = Keys(frequency)
        /\ \A i \in DOMAIN ranks : ranks[i][2] = 6

-----------------------------------------------------------------------------
(* Properties of _calculate_score on any rank table (SpecScore) *)

\* C12: the composite score of 5 distinct numbers of 1..42 under a rank table
\* with ranks 0..6 lies in [0, 100]; the score is held as 1200 * score.
C12_ScoreInRange ==
    (op = "_calculate_score" /\ WellFormed(combination)) =>
        /\ outcome = "returned"
        /\ 0 <= score
        /\ score <= 100 * 1200

\* the lowest score there is: every rank 6, sum 75 away from 100, no even
\* number, one band holding all five
C12_Witness ==
    /\ op = "_calculate_score"
    /\ outcome = "returned"
    /\ WellFormed(combination)
    /\ \A i \in DOMAIN ranks : ranks[i][2] = 6
    /\ combination = <<1, 3, 5, 7, 9>>
    /\ score = 21030

-----------------------------------------------------------------------------
(* Properties of the rank-file loaders (SpecLoad) *)

\* the fields Python's int() converts, with their values
Numerals ==
    {<<<<"7">>, 7>>, <<<<"7", "7">>, 77>>, <<<<"-", "7">>, -7>>,
     <<<<" ", "7">>, 7>>, <<<<"7", " ">>, 7>>,
     <<<<"7", "7", "7">>, 777>>, <<<<"-", "7", "7">>, -77>>,
     <<<<" ", "7", "7">>, 77>>, <<<<"7", "7", " ">>, 77>>,
     <<<<" ", "7", " ">>, 7>>, <<<<" ", " ", "7">>, 7>>,
     <<<<"7", " ", " ">>, 7>>, <<<<" ", "-", "7">>, -7>>,
     <<<<"-", "7", " ">>, -7>>}

IsNumeral(f) == \E p \in Numerals : p[1] = f

NumeralValue(f) == (CHOOSE p \in Numerals : p[1] = f)[2]

LoaderCalled == op \in {"load_rank_limits_from_file", "load_rank_counts_from_file"}

HasIntegerSecondRow ==
    /\ csv_file.exists
    /\ Len(csv_file.rows) >= 2
    /\ \A i \in DOMAIN csv_file.rows[2] : IsNumeral(csv_file.rows[2][i])

-----------------------------------------------------------------------------
(* Properties of the score of an accepted candidate (SpecSurvivor) *)

SumDistance(c) == Abs(SumSeq(c) - 100)

HasEmptyBand(c) == \E band \in DecadeBands : MembersIn(c, band) = 0

RankSum(c) == SumSeq([i \in DOMAIN c |-> Lookup(ranks, c[i])])

\* C21: for a combination filter_combination accepts, the even/odd sub-score
\* is exactly 90, the sum is within 20 of 100 so the cap of 30 does not
\* bind, and the decade sub-score is 80, or 60 when a band is empty (no band
\* holds more than 3); so the score is fixed by the rank sum, the distance
\* of the sum from 100 and whether a band is empty (score held times 1200).
C21_SurvivorSubScores ==
    (op = "candidate" /\ outcome \in {"True", "KeyError"}) =>
        LET c == combination
        IN  /\ eo_balance_score(c) = 90
            /\ SumDistance(c) <= 20
            /\ sum_score_100(c) = 10000 - 333 * SumDistance(c)
            /\ decade_score(c) \in {60, 80}
            /\ Range(c) \subseteq num_range =>
                   /\ outcome = "True"
                   /\ \A band \in DecadeBands : MembersIn(c, band) <= 3
                   /\ decade_score(c) = IF HasEmptyBand(c) THEN 60 ELSE 80
                   /\ score = (300 - 10 * RankSum(c)) * 140
                                  + (10000 - 333 * SumDistance(c)) * 3
                                  + 90 * 180
                                  + (IF HasEmptyBand(c) THEN 60 ELSE 80) * 300

\* an accepted candidate at the edge of each constraint: 3 even members,
\* sum 20 away from 100, an empty band
C21_Witness ==
    /\ op = "candidate"
    /\ outcome = "True"
    /\ WellFormed(combination)
    /\ EvenMembers(combination) = 3
    /\ SumDistance(combination) = 20
    /\ HasEmptyBand(combination)
    /\ decade_score(combination) = 60

=============================================================================
